---- MODULE Spec2Model ----
(***************************************************************************)
(* The CVE / Notice store of webapp/security and its three write handlers  *)
(* (bulk_upsert_cve, create_notice, delete_cve) as a state machine.        *)
(*                                                                         *)
(* db   is what is committed in the relational store (what a reader sees). *)
(* sess is the module-level db_session: the committed rows plus every      *)
(*      change made through the session that is neither committed nor      *)
(*      rolled back.  Handlers read and write sess; Session.commit()       *)
(*      copies sess to db, or, when the flush fails, rolls sess back to    *)
(*      db and raises.  An exception raised before commit() leaves sess    *)
(*      as it is: no handler calls rollback().                             *)
(* Python values are written as strings: None is "None", the empty string  *)
(* is "", the empty list is "[]".                                          *)
(***************************************************************************)
EXTENDS Integers, Sequences, FiniteSets, TLC

VARIABLES db, sess, before, req, resp, nops

vars == <<db, sess, before, req, resp, nops>>

\* Number of requests served in one run.
MaxOps == 2

----------------------------------------------------------------------------
(* Python values *)

Null == "None"
ABSENT == "<absent>"
UNBOUND == "<unbound local>"

Truthy(v) == v \notin {Null, "", ABSENT}

\* Optional scalar columns of CVE written by the bulk upsert.
Fields ==
    {"status", "priority", "cvss", "crd", "public_date", "public_date_usn",
     "last_updated_date", "assigned_to", "discovered_by", "approved_by",
     "description", "ubuntu_description", "notes"}

DateFields == {"last_updated_date", "public_date_usn", "public_date"}

\* dateutil.parser.parse: several textual forms denote one datetime.
parse(text) ==
    CASE text = "2020-03-12 23:15:00 UTC" -> "datetime(2020,3,12,23,15,0,UTC)"
      [] text = "12 Mar 2020 23:15 UTC"   -> "datetime(2020,3,12,23,15,0,UTC)"
      [] text = "2021-01-01"              -> "datetime(2021,1,1,0,0,0)"
      [] OTHER                             -> "ValueError"

\* datetime.fromtimestamp on the UNIX timestamps of the model.
fromtimestamp(ts) ==
    CASE ts = "1584054900" -> "datetime(2020,3,12,23,15,0)"
      [] ts = "1609459200" -> "datetime(2021,1,1,0,0,0)"
      [] OTHER             -> "ValueError"

\* data.get(key) and data.get(key, default) on the scalar part of a payload.
Get(data, k) == IF data.sc[k] = ABSENT THEN Null ELSE data.sc[k]

GetDefault(data, k, default) == IF data.sc[k] = ABSENT THEN default ELSE data.sc[k]

\* parse(data.get(k)) if data.get(k) else None
ParsedDate(data, k) == IF Truthy(Get(data, k)) THEN parse(Get(data, k)) ELSE Null

\* `if data.get("references"):` a key that is absent or holds [] is falsy.
TruthyList(key) == key.present /\ Len(key.val) > 0

----------------------------------------------------------------------------
(* The store *)

\* Release rows: reference data seeded out of band, never written here.
Release ==
    {[id |-> 1, codename |-> "focal", version |-> "20.04"],
     [id |-> 2, codename |-> "xenial", version |-> "16.04"],
     [id |-> 3, codename |-> "hardy", version |-> "8.04"]}

\* db_session.query(Release).filter(Release.codename == c).all()
ReleasesByCodename(c) == {r.id : r \in {x \in Release : x.codename = c}}

EmptyStore ==
    [cve          |-> << >>,    \* id -> CVE row (a function on the stored ids)
     cvereference |-> << >>,    \* CVEReference rows: row id -> uri
     bug          |-> << >>,    \* Bug rows: row id -> uri
     package      |-> << >>,    \* Package rows with their PackageReleaseStatus
     notice       |-> << >>,    \* id -> Notice row
     reference    |-> << >>]    \* Reference rows: row id -> uri

\* A CVE built with only its id: every other column NULL, no links.
BareCVE ==
    [f |-> [k \in Fields |-> Null], references |-> {}, bugs |-> {}, packages |-> {}]

\* .filter(T.uri == uri).first(): the row id, 0 for None.
FirstByUri(table, uri) ==
    IF \E i \in 1..Len(table) : table[i] = uri
    THEN CHOOSE i \in 1..Len(table) :
            /\ table[i] = uri
            /\ \A j \in 1..Len(table) : table[j] = uri => i <= j
    ELSE 0

\* The store column types reject the value (psycopg2 DataError at flush).
DataViolation(s) ==
    \E id \in DOMAIN s.cve : s.cve[id].f["cvss"] = "not-a-number"

\* Two rows of one flush carry the same primary key (IntegrityError).
DuplicateKey(ids) ==
    \E i, j \in 1..Len(ids) : i < j /\ ids[i] = ids[j]

\* An HTTP response: status code and JSON message; exc names the exception that
\* left the handler uncaught ("" when it returned), which the server turns
\* into a 500.
Response(code, message, exc) == [code |-> code, message |-> message, exc |-> exc]

----------------------------------------------------------------------------
(* prepare_cves_to_create *)

\* The PackageReleaseStatus children of one payload package.
ReleaseStatuses(package_data) ==
    [i \in 1..Len(package_data.releases) |->
        [name               |-> package_data.releases[i].name,
         status             |-> package_data.releases[i].status,
         status_description |-> package_data.releases[i].status_description,
         release            |-> ReleasesByCodename(package_data.releases[i].name)]]

NewPackage(package_data) ==
    [name     |-> package_data.name,
     source   |-> package_data.source,
     ubuntu   |-> package_data.ubuntu,
     debian   |-> package_data.debian,
     releases |-> ReleaseStatuses(package_data)]

NewPackages(key) == [i \in 1..Len(key.val) |-> NewPackage(key.val[i])]

\* Row ids n+1 .. n+k given to k rows appended to a table of n rows.
NewIds(table, k) == (Len(table) + 1)..(Len(table) + k)

CreateFields(data) ==
    [k \in Fields |->
        CASE k = "status"     -> GetDefault(data, "status", "")
          [] k \in DateFields -> ParsedDate(data, k)
          [] k = "notes"      -> GetDefault(data, "notes", "[]")
          [] k = "crd"        -> Null
          [] OTHER            -> Get(data, k)]

\* One payload of the create list: every reference and bug URI is wrapped in
\* a new row, every package in a new Package row.
CreateOne(s, data) ==
    LET refs == IF TruthyList(data.references) THEN data.references.val ELSE << >>
        bugs == IF TruthyList(data.bugs) THEN data.bugs.val ELSE << >>
        pkgs == IF TruthyList(data.packages) THEN NewPackages(data.packages) ELSE << >>
        cve  == [f          |-> CreateFields(data),
                 references |-> NewIds(s.cvereference, Len(refs)),
                 bugs       |-> NewIds(s.bug, Len(bugs)),
                 packages   |-> NewIds(s.package, Len(pkgs))]
    IN  [s EXCEPT !.cve          = (data.id :> cve) @@ @,
                  !.cvereference = @ \o refs,
                  !.bug          = @ \o bugs,
                  !.package      = @ \o pkgs]

RECURSIVE prepare_cves_to_create(_, _)
prepare_cves_to_create(s, cve_data) ==
    IF cve_data = << >> THEN s
    ELSE prepare_cves_to_create(CreateOne(s, Head(cve_data)), Tail(cve_data))

----------------------------------------------------------------------------
(* prepare_cves_to_update *)

\* A sparse patch: a column whose key is absent keeps its value.
UpdateFieldsSparse(cve, data) ==
    [k \in Fields |->
        IF data.sc[k] = ABSENT THEN cve.f[k]
        ELSE IF k \in DateFields THEN ParsedDate(data, k) ELSE Get(data, k)]

\* Every scalar column is assigned from the payload; `cve` is the loaded row.
UpdateFields(cve, data) ==
    [k \in Fields |-> IF k \in DateFields THEN ParsedDate(data, k) ELSE Get(data, k)]

\* A references loop that wraps every URI in a new row without looking it up.
RECURSIVE UpdateReferencesNoLookup(_, _, _)
UpdateReferencesNoLookup(st, id, uris) ==
    IF uris = << >> THEN st
    ELSE UpdateReferencesNoLookup(
             [st EXCEPT !.uri = Head(uris),
                        !.s.cvereference = Append(@, Head(uris)),
                        !.s.cve[id].references = @ \cup {Len(st.s.cvereference) + 1}],
             id, Tail(uris))

\* The loop over data["references"].  st.uri is the function's local `uri`.
\* A URI with no CVEReference row is appended as the bare string, which the
\* instrumented collection of a mapped object refuses (AttributeError).
RECURSIVE UpdateReferences(_, _, _)
UpdateReferences(st, id, uris) ==
    IF uris = << >> \/ st.exc # "" THEN st
    ELSE LET uri       == Head(uris)
             reference == FirstByUri(st.s.cvereference, uri)
             st1       == [st EXCEPT !.uri = uri]
         IN  IF reference = 0
             THEN [st1 EXCEPT !.exc = "AttributeError"]
             ELSE UpdateReferences(
                      [st1 EXCEPT !.s.cve[id].references = @ \cup {reference}],
                      id, Tail(uris))

\* The loop over data["bugs"].  The lookup filters on `uri`, the variable of the
\* references loop, not on the bug `b`; with no references loop run so far in
\* this call the name is unbound.  A Bug built here is pending in the session
\* (cascade from the loaded CVE) and found by the lookups that follow.
RECURSIVE UpdateBugs(_, _, _)
UpdateBugs(st, id, bs) ==
    IF bs = << >> \/ st.exc # "" THEN st
    ELSE IF st.uri = UNBOUND THEN [st EXCEPT !.exc = "UnboundLocalError"]
    ELSE LET b   == Head(bs)
             bug == FirstByUri(st.s.bug, st.uri)
         IN  IF bug = 0
             THEN UpdateBugs(
                      [st EXCEPT !.s.bug = Append(@, b),
                                 !.s.cve[id].bugs = @ \cup {Len(st.s.bug) + 1}],
                      id, Tail(bs))
             ELSE UpdateBugs([st EXCEPT !.s.cve[id].bugs = @ \cup {bug}], id, Tail(bs))

\* cve.packages.clear() and one new Package row per payload package.
UpdatePackages(st, id, key) ==
    [st EXCEPT !.s.package = @ \o NewPackages(key),
               !.s.cve[id].packages = NewIds(st.s.package, Len(key.val))]

\* One payload of the update list, applied to the session's CVE object.
UpdateOne(st, data) ==
    LET id == data.id
        s1 == [st EXCEPT !.s.cve[id].f = UpdateFields(st.s.cve[id], data)]
        s2 == IF TruthyList(data.references)
              THEN UpdateReferences([s1 EXCEPT !.s.cve[id].references = {}],
                                    id, data.references.val)
              ELSE s1
        s3 == IF s2.exc = "" /\ TruthyList(data.bugs)
              THEN UpdateBugs([s2 EXCEPT !.s.cve[id].bugs = {}], id, data.bugs.val)
              ELSE s2
    IN  IF s3.exc = "" /\ TruthyList(data.packages)
        THEN UpdatePackages(s3, id, data.packages)
        ELSE s3

\* Returns [s, uri, exc]: the session after the loop, and the exception that
\* ended it ("" when it returned).
RECURSIVE UpdateLoop(_, _)
UpdateLoop(st, cve_data) ==
    IF cve_data = << >> \/ st.exc # "" THEN st
    ELSE UpdateLoop(UpdateOne(st, Head(cve_data)), Tail(cve_data))

prepare_cves_to_update(s, cve_data) ==
    UpdateLoop([s |-> s, uri |-> UNBOUND, exc |-> ""], cve_data)

----------------------------------------------------------------------------
(* Session.commit() *)

\* The errors the flush of session s can raise; newIds are the primary keys of
\* the CVE rows it inserts.
FlushErrors(s, newIds) ==
    (IF DataViolation(s) THEN {"DataError"} ELSE {})
        \cup (IF DuplicateKey(newIds) THEN {"IntegrityError"} ELSE {})

\* A commit whose failed flush leaves what it wrote in the store.
CommitNoRollback(d, s, err) == [db |-> s, sess |-> s]

\* commit() with the flush raising err ("" for none): [db, sess] afterwards.
\* A failed flush rolls the transaction and the session back.
Commit(d, s, err) ==
    IF err = "" THEN [db |-> s, sess |-> s] ELSE [db |-> d, sess |-> d]

----------------------------------------------------------------------------
(* bulk_upsert_cve *)

Ids(cve_data) == [i \in 1..Len(cve_data) |-> cve_data[i].id]

\* The partition loop: payloads whose id the session finds, and the others.
ToUpdate(s, cves_data) == SelectSeq(cves_data, LAMBDA data : data.id \in DOMAIN s.cve)

\* A partition loop that drops the payload after the first unknown id.
ToCreateFirstOnly(s, cves_data) ==
    SubSeq(SelectSeq(cves_data, LAMBDA data : data.id \notin DOMAIN s.cve), 1, 1)

ToCreate(s, cves_data) == SelectSeq(cves_data, LAMBDA data : data.id \notin DOMAIN s.cve)

\* The `except DataError` clause: the response for flush error err, or the
\* exception leaving the handler.
BulkCatch(err) ==
    IF err = "DataError"
    THEN Response(400, "Failed bulk upserting session", "")
    ELSE Response(500, "", err)

\* The handler once the body is known to be a list: partition, prepare the
\* updates then the creates, commit.  Every outcome [db, sess, resp].
BulkProcess(d, s, cves_data) ==
    LET upd  == prepare_cves_to_update(s, ToUpdate(s, cves_data))
        new  == prepare_cves_to_create(upd.s, ToCreate(s, cves_data))
        errs == FlushErrors(new, Ids(ToCreate(s, cves_data)))
    IN  IF upd.exc # ""
        THEN {[db |-> d, sess |-> upd.s, resp |-> Response(500, "", upd.exc)]}
        ELSE IF errs = {}
        THEN {[db   |-> Commit(d, new, "").db,
               sess |-> Commit(d, new, "").sess,
               resp |-> Response(200, "Successfully finished bulk upserting session", "")]}
        ELSE {[db   |-> Commit(d, new, err).db,
               sess |-> Commit(d, new, err).sess,
               resp |-> BulkCatch(err)] : err \in errs}

\* The handler without its type check.
BulkUpsertUnchecked(d, s, body) == BulkProcess(d, s, body.items)

\* Every outcome [db, sess, resp] of the handler on request body `body`.
BulkUpsert(d, s, body) ==
    IF ~body.isList
    THEN {[db |-> d, sess |-> s,
           resp |-> Response(400, "Please, submit a list (array) of CVEs", "")]}
    ELSE BulkProcess(d, s, body.items)

----------------------------------------------------------------------------
(* create_notice *)

\* ref.startswith("CVE-") and ref[4:], on the reference strings of the model.
StartsWithCVE(ref) == ref \in {"CVE-2020-1", "CVE-2020-2"}

Slice4(ref) ==
    CASE ref = "CVE-2020-1" -> "2020-1"
      [] ref = "CVE-2020-2" -> "2020-2"
      [] OTHER              -> ref

\* NoticeSchema().load: the required keys are there and releases is not empty.
SchemaValid(json) ==
    /\ json.title # ABSENT
    /\ json.summary # ABSENT
    /\ json.description # ABSENT
    /\ DOMAIN json.releases # {}

\* A release loop that skips a codename with no Release row.
UnknownCodenamesSkipped(data) == {}

\* The release codenames of the payload with no Release row (NoResultFound).
UnknownCodenames(data) ==
    {c \in DOMAIN data.releases : ReleasesByCodename(c) = {}}

\* The loop over set(data["references"]): CVE rows resolved or built by the
\* sliced id, Reference rows resolved or built by uri.  Returns the session
\* with the new rows and the links of the notice.
RECURSIVE LinkReferences(_, _)
LinkReferences(acc, refs) ==
    IF refs = {} THEN acc
    ELSE LET ref == CHOOSE r \in refs : TRUE
             s   == acc.s
         IN  IF StartsWithCVE(ref)
             THEN LET cve_id == Slice4(ref)
                  IN  LinkReferences(
                          [acc EXCEPT
                              !.s.cve = IF cve_id \in DOMAIN s.cve THEN @
                                        ELSE (cve_id :> BareCVE) @@ @,
                              !.cves = @ \cup {cve_id}],
                          refs \ {ref})
             ELSE LET reference == FirstByUri(s.reference, ref)
                  IN  IF reference = 0
                      THEN LinkReferences(
                               [acc EXCEPT !.s.reference = Append(@, ref),
                                           !.references = @ \cup {Len(s.reference) + 1}],
                               refs \ {ref})
                      ELSE LinkReferences(
                               [acc EXCEPT !.references = @ \cup {reference}],
                               refs \ {ref})

\* The Notice row built from a validated payload and its links.
NewNotice(data, releases, links) ==
    [title        |-> data.title,
     summary      |-> data.summary,
     details      |-> data.description,
     packages     |-> data.releases,
     published    |-> fromtimestamp(data.timestamp),
     instructions |-> IF data.action # ABSENT THEN data.action ELSE Null,
     isummary     |-> IF data.isummary # ABSENT THEN data.isummary ELSE Null,
     releases     |-> releases,
     cves         |-> links.cves,
     references   |-> links.references]

\* The flush of a session without the check of notice.id's uniqueness.
NoticeFlushNoKey(s, notice_id) == FlushErrors(s, << >>)

\* The errors the flush that inserts Notice notice_id can raise: notice.id is
\* the primary key.
NoticeFlushErrors(s, notice_id) ==
    FlushErrors(s, << >>)
        \cup (IF notice_id \in DOMAIN s.notice THEN {"IntegrityError"} ELSE {})

\* The `except IntegrityError` clause of create_notice.
NoticeCatch(err) ==
    IF err = "IntegrityError"
    THEN Response(400, "Notice already exists", "")
    ELSE Response(500, "", err)

\* Every outcome [db, sess, resp] of the handler on request body `json`.
CreateNotice(d, s, json) ==
    IF ~json.nonempty
    THEN {[db |-> d, sess |-> s, resp |-> Response(400, "No payload received", "")]}
    ELSE IF ~SchemaValid(json)
    THEN {[db |-> d, sess |-> s, resp |-> Response(400, "Invalid payload", "")]}
    ELSE IF UnknownCodenames(json) # {}
    THEN {[db |-> d, sess |-> s,
           resp |-> Response(400, "No release with codename", "")]}
    ELSE LET releases == UNION {ReleasesByCodename(c) : c \in DOMAIN json.releases}
             links == LinkReferences([s |-> s, cves |-> {}, references |-> {}],
                                     json.references)
             new   == [links.s EXCEPT
                          !.notice = (json.notice_id :> NewNotice(json, releases, links)) @@ @]
             errs  == NoticeFlushErrors(links.s, json.notice_id)
         IN  IF errs = {}
             THEN {[db   |-> Commit(d, new, "").db,
                    sess |-> Commit(d, new, "").sess,
                    resp |-> Response(201, "Notice created", "")]}
             ELSE {[db   |-> Commit(d, new, err).db,
                    sess |-> Commit(d, new, err).sess,
                    resp |-> NoticeCatch(err)] : err \in errs}

----------------------------------------------------------------------------
(* delete_cve *)

\* notice_cves.cve_id is a foreign key to cve.id: a CVE a Notice links to
\* cannot be deleted.
ReferencedElsewhere(s, cve_id) ==
    \E n \in DOMAIN s.notice : cve_id \in s.notice[n].cves

\* A Package row holds a foreign key to the CVE it was built for: a CVE with
\* packages cannot be deleted.
LinkedFromPackage(s, cve_id) == s.cve[cve_id].packages # {}

\* The `except IntegrityError` clause of delete_cve.
DeleteCatch(err) ==
    IF err = "IntegrityError"
    THEN Response(400, "violates foreign key constraint", "")
    ELSE Response(500, "", err)

\* Every outcome [db, sess, resp] of the handler for path parameter cve_id.
DeleteCve(d, s, cve_id) ==
    IF cve_id \notin DOMAIN s.cve
    THEN \* .first() is None and Session.delete(None) raises
         {[db |-> d, sess |-> s, resp |-> Response(500, "", "UnmappedInstanceError")]}
    ELSE LET new  == [s EXCEPT !.cve = [i \in (DOMAIN s.cve) \ {cve_id} |-> s.cve[i]]]
             errs == FlushErrors(new, << >>)
                        \cup (IF ReferencedElsewhere(s, cve_id)
                                 \/ LinkedFromPackage(s, cve_id)
                              THEN {"IntegrityError"} ELSE {})
         IN  IF errs = {}
             THEN {[db   |-> Commit(d, new, "").db,
                    sess |-> Commit(d, new, "").sess,
                    resp |-> Response(200, "CVE deleted succesfully", "")]}
             ELSE {[db   |-> Commit(d, new, err).db,
                    sess |-> Commit(d, new, err).sess,
                    resp |-> DeleteCatch(err)] : err \in errs}

----------------------------------------------------------------------------
(* Requests *)

Key(val) == [present |-> TRUE, val |-> val]

NoKey == [present |-> FALSE, val |-> << >>]

Payload(id, sc, references, bugs, packages) ==
    [id |-> id, sc |-> sc, references |-> references, bugs |-> bugs,
     packages |-> packages]

ScNone == [k \in Fields |-> ABSENT]

ScSome ==
    [k \in Fields |->
        CASE k = "status"      -> "active"
          [] k = "priority"    -> "low"
          [] k = "public_date" -> "2020-03-12 23:15:00 UTC"
          [] k = "notes"       -> "[msalvatore]"
          [] OTHER             -> ABSENT]

ScAll ==
    [k \in Fields |->
        CASE k \in DateFields -> "12 Mar 2020 23:15 UTC"
          [] k = "crd"        -> "2021-01-01"
          [] k = "cvss"       -> "7.5"
          [] k = "status"     -> "not-for-us"
          [] OTHER            -> "text"]

ScBad == [k \in Fields |-> IF k = "cvss" THEN "not-a-number" ELSE ABSENT]

PkgA ==
    [name |-> "gitlab", source |-> "src", ubuntu |-> "ubu", debian |-> "deb",
     releases |-> <<[name |-> "focal", status |-> "needs-triage",
                     status_description |-> ""],
                    [name |-> "upstream", status |-> "DNE",
                     status_description |-> ""]>>]

Uris == {"u1", "u2"}

\* The payload with everything but the id.
Shapes ==
    {[sc |-> ScNone, references |-> NoKey, bugs |-> NoKey, packages |-> NoKey],
     [sc |-> ScSome, references |-> NoKey, bugs |-> NoKey, packages |-> NoKey],
     [sc |-> ScAll, references |-> NoKey, bugs |-> NoKey, packages |-> NoKey],
     [sc |-> ScBad, references |-> NoKey, bugs |-> NoKey, packages |-> NoKey],
     [sc |-> ScNone, references |-> Key(<<"u1">>), bugs |-> NoKey, packages |-> NoKey],
     [sc |-> ScNone, references |-> Key(<<"u2">>), bugs |-> NoKey, packages |-> NoKey],
     [sc |-> ScNone, references |-> Key(<<"u1", "u2">>), bugs |-> NoKey,
      packages |-> NoKey],
     [sc |-> ScNone, references |-> Key(<< >>), bugs |-> Key(<< >>),
      packages |-> Key(<< >>)],
     [sc |-> ScNone, references |-> NoKey, bugs |-> Key(<<"u1">>), packages |-> NoKey],
     [sc |-> ScNone, references |-> Key(<<"u1">>), bugs |-> Key(<<"u2">>),
      packages |-> NoKey],
     [sc |-> ScNone, references |-> NoKey, bugs |-> NoKey, packages |-> Key(<<PkgA>>)],
     [sc |-> ScSome, references |-> Key(<<"u2">>), bugs |-> Key(<<"u1">>),
      packages |-> Key(<<PkgA>>)]}

\* The shapes submitted in batches of two.
PairShapes ==
    {x \in Shapes :
        /\ x.bugs = NoKey /\ x.packages = NoKey
        /\ x.sc \in {ScNone, ScBad}
        /\ x.references \in {NoKey, Key(<<"u1">>)}}

CveIds == {"CVE-2020-1", "CVE-2020-2"}

With(id, x) == Payload(id, x.sc, x.references, x.bugs, x.packages)

Plain(id) == Payload(id, ScNone, NoKey, NoKey, NoKey)

\* The batches: every single payload, pairs, and the batch of three creates
\* and a fourth payload the store rejects.
Batches ==
    {<<With(id, x)>> : id \in CveIds, x \in Shapes}
        \cup {<<With(a[1], a[2]), With(b[1], b[2])>> :
                 a \in CveIds \X PairShapes, b \in CveIds \X PairShapes}
        \cup {<<Plain("CVE-2020-3"), Plain("CVE-2020-4"), Plain("CVE-2020-5"),
                Payload("CVE-2020-6", ScBad, NoKey, NoKey, NoKey)>>,
              <<Plain("CVE-2020-3"), Plain("CVE-2020-4"), Plain("CVE-2020-5"),
                Plain("CVE-2020-4")>>}

\* request.json of a bulk upsert: a list of payloads, or something else.
Bodies ==
    {[isList |-> TRUE, items |-> b] : b \in Batches}
        \cup {[isList |-> FALSE, items |-> <<Plain("CVE-2020-1")>>]}

NoticeJson(notice_id, title, releases, references) ==
    [nonempty |-> TRUE, notice_id |-> notice_id, title |-> title,
     summary |-> "summary", description |-> "details", timestamp |-> "1584054900",
     releases |-> releases, references |-> references,
     action |-> ABSENT, isummary |-> "short"]

Sources == [sources |-> [gitlab |-> [description |-> "d"]]]

\* request.json of create_notice.
NoticeBodies ==
    {NoticeJson("4414-1", "first", [focal |-> Sources], {"CVE-2020-1", "u1"}),
     NoticeJson("4414-1", "second", [focal |-> Sources, xenial |-> Sources], {"u2"}),
     NoticeJson("4415-1", "third", [focal |-> Sources, warty |-> Sources],
                {"CVE-2020-2", "u1"}),
     NoticeJson("4415-1", ABSENT, [focal |-> Sources], {}),
     [NoticeJson("4415-1", "empty", << >>, {}) EXCEPT !.nonempty = FALSE]}

\* The ids delete_cve is called with.
DeleteIds == {"CVE-2020-1", "2020-1"}

----------------------------------------------------------------------------
(* The state machine: one request at a time on the shared session *)

NoRequest == [op |-> "none", arg |-> << >>]

Init ==
    /\ db = EmptyStore
    /\ sess = EmptyStore
    /\ before = EmptyStore
    /\ req = NoRequest
    /\ resp = Response(0, "", "")
    /\ nops = 0

Serve(op, arg, outcome) ==
    /\ nops < MaxOps
    /\ nops' = nops + 1
    /\ before' = db
    /\ req' = [op |-> op, arg |-> arg]
    /\ db' = outcome.db
    /\ sess' = outcome.sess
    /\ resp' = outcome.resp

bulk_upsert_cve ==
    \E body \in Bodies : \E outcome \in BulkUpsert(db, sess, body) :
        Serve("bulk_upsert_cve", body, outcome)

create_notice ==
    \E json \in NoticeBodies : \E outcome \in CreateNotice(db, sess, json) :
        Serve("create_notice", json, outcome)

delete_cve ==
    \E cve_id \in DeleteIds : \E outcome \in DeleteCve(db, sess, cve_id) :
        Serve("delete_cve", cve_id, outcome)

Next == bulk_upsert_cve \/ create_notice \/ delete_cve

Spec == Init /\ [][Next]_vars

----------------------------------------------------------------------------
(* Longer runs on the shared session, with fewer request bodies *)

MaxSessionOps == 3

\* Payload shapes of the longer runs: plain creates and updates, an update
\* whose bugs loop raises, one whose references loop raises, one with packages.
SessionShapes ==
    {x \in Shapes :
        \/ x.references = NoKey /\ x.bugs = NoKey /\ x.packages = NoKey
              /\ x.sc \in {ScNone, ScSome}
        \/ x.sc = ScNone /\ x.references = NoKey /\ x.bugs = Key(<<"u1">>)
        \/ x.sc = ScNone /\ x.references = Key(<<"u1">>) /\ x.bugs = NoKey
        \/ x.sc = ScNone /\ x.packages = Key(<<PkgA>>)}

SessionBodies ==
    {[isList |-> TRUE, items |-> <<With(id, x)>>] : id \in CveIds, x \in SessionShapes}
        \cup {[isList |-> TRUE, items |-> <<Plain("CVE-2020-1"), Plain("CVE-2020-2")>>]}

SessionNoticeBodies == {json \in NoticeBodies : json.title = "first"}

SessionDeleteIds == CveIds \cup DeleteIds

ServeSession(op, arg, outcome) ==
    /\ nops < MaxSessionOps
    /\ nops' = nops + 1
    /\ before' = db
    /\ req' = [op |-> op, arg |-> arg]
    /\ db' = outcome.db
    /\ sess' = outcome.sess
    /\ resp' = outcome.resp

session_bulk_upsert_cve ==
    \E body \in SessionBodies : \E outcome \in BulkUpsert(db, sess, body) :
        ServeSession("bulk_upsert_cve", body, outcome)

session_create_notice ==
    \E json \in SessionNoticeBodies : \E outcome \in CreateNotice(db, sess, json) :
        ServeSession("create_notice", json, outcome)

session_delete_cve ==
    \E cve_id \in SessionDeleteIds : \E outcome \in DeleteCve(db, sess, cve_id) :
        ServeSession("delete_cve", cve_id, outcome)

NextSession == session_bulk_upsert_cve \/ session_create_notice \/ session_delete_cve

SpecSession == Init /\ [][NextSession]_vars

----------------------------------------------------------------------------
(* The read views: pure functions of the session's store and the query args *)

\* An integer query parameter that is not in the query string.
NoInt == [present |-> FALSE, val |-> 0]

IntKey(val) == [present |-> TRUE, val |-> val]

\* flask.request.args.get(key, default=default, type=int)
IntArg(arg, default) == IF arg.present THEN arg.val ELSE default

\* column.ilike(f"%{q}%") on the texts of the model: q occurs in text, the
\* case of letters ignored.
ILike(text, q) ==
    <<text, q>> \in {<<"Linux kernel update", "KERNEL">>,
                     <<"GitLab 12.8.x before 12.8.6", "gitlab">>,
                     <<"gitlab", "git">>,
                     <<"gitlab-ce", "git">>}

\* math.ceil(a / b) for a >= 0 and b > 0.
ceil(a, b) == (a + b - 1) \div b

\* query.order_by(sort(column)): the rows by their key, ascending or
\* descending.
RECURSIVE OrderBy(_, _, _)
OrderBy(rows, key, descending) ==
    IF rows = {} THEN << >>
    ELSE LET first == CHOOSE r \in rows : \A o \in rows :
                          IF descending THEN key[o] <= key[r] ELSE key[r] <= key[o]
         IN  <<first>> \o OrderBy(rows \ {first}, key, descending)

\* query.offset(offset).limit(limit).all() on the ordered rows.
Slice(rows, offset, limit) ==
    SubSeq(rows, offset + 1,
           IF offset + limit < Len(rows) THEN offset + limit ELSE Len(rows))

\* A rendered template and flask.abort(404).
Rendered(body) == [code |-> 200, message |-> "", exc |-> "", body |-> body]

NotFound == Response(404, "", "")

\* Page size of the notice index.
page_size == 10

\* notices_query after the release join and the details filter.
NoticesQuery(s, release, details) ==
    {n \in DOMAIN s.notice :
        /\ Truthy(release) =>
              \E r \in Release : r.codename = release /\ r.id \in s.notice[n].releases
        /\ Truthy(details) => ILike(s.notice[n].details, details)}

\* A guard that aborts on every page beyond the last one.
PageBeyondLast(page, total_pages) == page < 1 \/ page > total_pages

\* `if page < 1 or 1 < page > total_pages`
PageOutOfRange(page, total_pages) == page < 1 \/ (1 < page /\ page > total_pages)

\* The notice index for query args [page, details, release, order].
Notices(s, args) ==
    LET page          == IntArg(args.page, 1)
        rows          == NoticesQuery(s, args.release, args.details)
        total_results == Cardinality(rows)
        total_pages   == ceil(total_results, page_size)
        offset        == page * page_size - page_size
        notices       == Slice(OrderBy(rows, [n \in rows |-> s.notice[n].published],
                                       args.order # "oldest"),
                               offset, page_size)
    IN  IF PageOutOfRange(page, total_pages)
        THEN NotFound
        ELSE Rendered([notices    |-> notices,
                       pagination |-> [current_page      |-> page,
                                       total_pages       |-> total_pages,
                                       total_results     |-> total_results,
                                       page_first_result |-> offset + 1,
                                       page_last_result  |-> offset + Len(notices)]])

\* str.upper, str.lower and str.strip on the search texts of the model.
upper(text) ==
    CASE text = "cve-2020-10535" -> "CVE-2020-10535"
      [] text = "gitlab"         -> "GITLAB"
      [] OTHER                   -> text

lower(text) ==
    CASE text = "CVE-2020-10535" -> "cve-2020-10535"
      [] text = "GITLAB"         -> "gitlab"
      [] OTHER                   -> text

strip(text) ==
    CASE text = " gitlab " -> "gitlab"
      [] OTHER             -> text

\* re.match(r"^CVE-\d{4}-\d{4,7}$", text) on the texts of the model.
IsCveId(text) ==
    text \in {"CVE-2020-10535", "CVE-2019-1010262", "CVE-2020-9064", "CVE-2020-9365"}

\* The rows of cves_query: one row for each CVE, and with the join on
\* Package one row for each package of the CVE whose name matches (row 0
\* stands for the CVE alone).
CvesQuery(s, package, priority, query) ==
    {row \in (DOMAIN s.cve) \X (0..Len(s.package)) :
        /\ IF Truthy(package)
           THEN /\ row[2] \in s.cve[row[1]].packages
                /\ ILike(s.package[row[2]].name, package)
           ELSE row[2] = 0
        /\ Truthy(priority) => s.cve[row[1]].f["priority"] = priority
        /\ Truthy(query) => ILike(s.cve[row[1]].f["description"], query)}

\* Query.all() of one mapped entity: each entity once, in the order of its
\* first row.
RECURSIVE Entities(_)
Entities(rows) ==
    IF rows = << >> THEN << >>
    ELSE LET init == Entities(SubSeq(rows, 1, Len(rows) - 1))
             last == rows[Len(rows)][1]
         IN  IF \E i \in 1..Len(init) : init[i] = last THEN init
             ELSE Append(init, last)

\* The CVE index for query args [order_by, q, priority, package, limit, offset].
CveIndex(s, args) ==
    LET order_by == IF args.order_by = ABSENT THEN "oldest" ELSE args.order_by
        query    == strip(args.q)
        limit    == IntArg(args.limit, 20)
        offset   == IntArg(args.offset, 0)
        rows     == CvesQuery(s, args.package, args.priority, query)
        cves     == Entities(Slice(OrderBy(rows,
                                           [r \in rows |-> s.cve[r[1]].f["public_date"]],
                                           order_by # "oldest"),
                                   offset, limit))
        total_results == Cardinality(rows)
    IN  IF IsCveId(upper(query)) /\ upper(query) \in DOMAIN s.cve
        THEN Response(302, lower(query), "")
        ELSE IF limit = 0
        THEN Response(500, "", "ZeroDivisionError")
        ELSE Rendered([cves          |-> cves,
                       total_results |-> total_results,
                       total_pages   |-> ceil(total_results, limit),
                       offset        |-> offset,
                       limit         |-> limit,
                       priority      |-> args.priority,
                       query         |-> query,
                       package       |-> args.package])

\* markdown_parser on the texts of the model.
markdown_parser(text) ==
    CASE text = "Linux kernel update" -> "<p>Linux kernel update</p>"
      [] text = "OpenSSL fix"         -> "<p>OpenSSL fix</p>"
      [] text = "Update your system"  -> "<p>Update your system</p>"
      [] OTHER                        -> "TypeError"

\* f"{name} - {description}" if description else name
PackageName(name, description) ==
    CASE ~Truthy(description)               -> name
      [] name = "gitlab" /\ description = "d" -> "gitlab - d"
      [] name = "linux" /\ description = "d"  -> "linux - d"
      [] OTHER                               -> "other"

\* a < b for Python str, on the version strings of the model: character by
\* character, "1" < "2" < "8".
StrLess(a, b) ==
    <<a, b>> \in {<<"16.04", "20.04">>, <<"16.04", "8.04">>, <<"20.04", "8.04">>}

\* Release.version of the one Release with this codename.
VersionOf(codename) ==
    (CHOOSE r \in Release : r.codename = codename).version

\* packages.get("sources", {})
SourcesOf(packages) ==
    IF "sources" \in DOMAIN packages THEN packages.sources ELSE << >>

\* sorted(releases_packages.items(), reverse=True): the items by their key,
\* the greatest str first.
RECURSIVE SortedReverse(_)
SortedReverse(releases_packages) ==
    IF DOMAIN releases_packages = {} THEN << >>
    ELSE LET top  == CHOOSE k \in DOMAIN releases_packages :
                         \A o \in DOMAIN releases_packages : ~StrLess(k, o)
             rest == [k \in (DOMAIN releases_packages) \ {top} |-> releases_packages[k]]
         IN  <<[version |-> top, packages |-> releases_packages[top]]>>
                 \o SortedReverse(rest)

\* The notice page of notice_id.
NoticeView(s, notice_id) ==
    IF notice_id \notin DOMAIN s.notice
    THEN NotFound
    ELSE LET notice   == s.notice[notice_id]
             packages == notice.packages
         IN  IF \E release \in DOMAIN packages : ReleasesByCodename(release) = {}
             THEN Response(500, "", "NoResultFound")
             ELSE LET releases_packages ==
                          [release_name \in {VersionOf(c) : c \in DOMAIN packages} |->
                              LET release == CHOOSE c \in DOMAIN packages :
                                                 VersionOf(c) = release_name
                                  sources == SourcesOf(packages[release])
                              IN  {[name        |-> name,
                                    description |-> sources[name].description] :
                                       name \in DOMAIN sources}]
                      notice_packages ==
                          UNION {{PackageName(name,
                                              SourcesOf(packages[c])[name].description) :
                                     name \in DOMAIN SourcesOf(packages[c])} :
                                 c \in DOMAIN packages}
                  IN  Rendered([id                |-> notice_id,
                                title             |-> notice.title,
                                published         |-> notice.published,
                                summary           |-> notice.summary,
                                isummary          |-> notice.isummary,
                                details           |-> markdown_parser(notice.details),
                                instructions      |-> markdown_parser(notice.instructions),
                                packages          |-> notice_packages,
                                releases_packages |-> SortedReverse(releases_packages),
                                releases          |-> notice.releases,
                                cves              |-> notice.cves,
                                references        |-> notice.references])

----------------------------------------------------------------------------
(* The views on stores of many rows *)

MaxNotices == 21

GitlabSources == [sources |-> [gitlab |-> [description |-> "d"]]]

\* The packages mapping of a stored notice: codename -> {sources: {name: ..}}.
ViewPackages(i) ==
    CASE i % 4 = 0 -> [focal |-> GitlabSources, xenial |-> GitlabSources]
      [] i % 4 = 1 -> [focal |-> GitlabSources,
                       hardy |-> [sources |-> [gitlab |-> [description |-> "d"],
                                               linux  |-> [description |-> ""]]]]
      [] i % 4 = 2 -> [xenial |-> [sources |-> [linux |-> [description |-> ""]]]]
      [] OTHER     -> [hardy |-> [binaries |-> [gitlab |-> [version |-> "1"]]]]

\* The i-th stored notice, as create_notice stores it: linked to the Release
\* of each codename of its packages mapping; published on day i.
ViewNotice(i) ==
    [title        |-> "title",
     summary      |-> "summary",
     details      |-> IF i % 3 = 0 THEN "Linux kernel update" ELSE "OpenSSL fix",
     packages     |-> ViewPackages(i),
     published    |-> i,
     instructions |-> "Update your system",
     isummary     |-> Null,
     releases     |-> UNION {ReleasesByCodename(c) : c \in DOMAIN ViewPackages(i)},
     cves         |-> {},
     references   |-> {}]

ViewCveIds == <<"CVE-2020-10535", "CVE-2019-1010262", "CVE-2020-9064", "CVE-2020-9365">>

\* Package rows: two of the first CVE, one of the second, one of the fourth.
ViewPackageRows ==
    <<NewPackage(PkgA), NewPackage([PkgA EXCEPT !.name = "gitlab-ce"]),
      NewPackage(PkgA), NewPackage([PkgA EXCEPT !.name = "linux"])>>

\* The i-th stored CVE, made public on day i.
ViewCve(i) ==
    [BareCVE EXCEPT
        !.f["priority"]    = IF i % 2 = 1 THEN "low" ELSE "medium",
        !.f["description"] = IF i <= 2 THEN "GitLab 12.8.x before 12.8.6" ELSE "text",
        !.f["public_date"] = i,
        !.packages         = CASE i = 1 -> {1, 2} [] i = 2 -> {3} [] i = 4 -> {4}
                               [] OTHER -> {}]

\* A store of nn notices and the first nc of the CVEs.
ViewStore(nn, nc) ==
    [EmptyStore EXCEPT
        !.notice  = [i \in 1..nn |-> ViewNotice(i)],
        !.cve     = [id \in {ViewCveIds[i] : i \in 1..nc} |->
                        ViewCve(CHOOSE i \in 1..nc : ViewCveIds[i] = id)],
        !.package = IF nc = 0 THEN << >> ELSE ViewPackageRows]

ViewStores ==
    {ViewStore(0, 0), ViewStore(1, 1), ViewStore(page_size, 2),
     ViewStore(page_size + 1, 3), ViewStore(MaxNotices, Len(ViewCveIds))}

\* The query strings of the notice index.
NoticesArgs ==
    [page    : {NoInt} \cup {IntKey(p) : p \in -1..4},
     details : {Null, "KERNEL", "nothing"},
     release : {Null, "focal", "hardy", "warty"},
     order   : {Null, "oldest"}]

\* The query strings of the CVE index.
CveIndexArgs ==
    [order_by : {ABSENT, "newest"},
     q        : {"", "gitlab", " gitlab ", "cve-2020-10535"},
     priority : {Null, "low"},
     package  : {Null, "git"},
     limit    : {NoInt} \cup {IntKey(l) : l \in 0..2},
     offset   : {NoInt, IntKey(1), IntKey(3)}]

\* The ids the notice page is asked for: stored ones and one that is not.
NoticeIds == 1..4 \cup {MaxNotices + 1}

InitViews ==
    /\ db \in ViewStores
    /\ sess = db
    /\ before = db
    /\ req = NoRequest
    /\ resp = Response(0, "", "")
    /\ nops = 0

\* A view reads and writes nothing: one request on each store shows all it does.
ServeView(op, arg, outcome) ==
    /\ nops = 0
    /\ nops' = nops + 1
    /\ req' = [op |-> op, arg |-> arg]
    /\ resp' = outcome
    /\ UNCHANGED <<db, sess, before>>

notices == \E args \in NoticesArgs : ServeView("notices", args, Notices(sess, args))

cve_index == \E args \in CveIndexArgs : ServeView("cve_index", args, CveIndex(sess, args))

notice == \E notice_id \in NoticeIds : ServeView("notice", notice_id, NoticeView(sess, notice_id))

NextViews == notice \/ notices \/ cve_index

SpecViews == InitViews /\ [][NextViews]_vars

----------------------------------------------------------------------------
(* Two bulk upserts at once: each request runs in a worker with a session of
   its own, on the one store.  A reader sees the store, db, of the state it
   reads in. *)

Workers == {"a", "b"}

\* A payload with scalar fields only.
Scalar(id, sc) == Payload(id, sc, NoKey, NoKey, NoKey)

\* Batches of one payload and of two.
ConcurrentBatches ==
    {<<Scalar(id, sc)>> : id \in CveIds, sc \in {ScSome, ScAll}}
        \cup {<<Scalar("CVE-2020-1", x), Scalar("CVE-2020-2", y)>> :
                 x \in {ScSome, ScAll}, y \in {ScSome, ScAll}}

\* The stores the two requests find: empty, or holding CVE-2020-1.
ConcurrentStores ==
    {EmptyStore, prepare_cves_to_create(EmptyStore, <<Scalar("CVE-2020-1", ScSome)>>)}

\* The flush of a session that loaded its objects from store `loaded` and now
\* holds s, into the store d of the moment: an INSERT for each CVE the session
\* built, and for each CVE it loaded an UPDATE of the columns whose value is
\* not the loaded one (a column set to the value it was loaded with is not
\* written).
Flush(d, loaded, s) ==
    [d EXCEPT !.cve =
        [id \in DOMAIN d.cve \cup DOMAIN s.cve |->
            IF id \notin DOMAIN s.cve THEN d.cve[id]
            ELSE IF id \notin DOMAIN loaded.cve THEN s.cve[id]
            ELSE [d.cve[id] EXCEPT
                     !.f = [k \in Fields |->
                               IF s.cve[id].f[k] # loaded.cve[id].f[k]
                               THEN s.cve[id].f[k] ELSE @[k]]]]]

\* The primary keys of the session's INSERTs that the store holds by now.
KeysTaken(d, created) == {i \in 1..Len(created) : created[i].id \in DOMAIN d.cve}

InitConcurrent ==
    /\ db \in ConcurrentStores
    /\ sess = [w \in Workers |-> db]
    /\ before = [w \in Workers |-> db]
    /\ req \in [Workers -> {[op |-> "bulk_upsert_cve", pc |-> "received",
                             arg |-> [isList |-> TRUE, items |-> b]] :
                               b \in ConcurrentBatches}]
    /\ resp = [w \in Workers |-> Response(0, "", "")]
    /\ nops = 0

\* Worker w partitions its batch by the store of the moment and builds its
\* objects in its session.
build(w) ==
    /\ req[w].pc = "received"
    /\ LET cves_data == req[w].arg.items
           upd       == prepare_cves_to_update(db, ToUpdate(db, cves_data))
           new       == prepare_cves_to_create(upd.s, ToCreate(db, cves_data))
       IN  /\ before' = [before EXCEPT ![w] = db]
           /\ IF upd.exc # ""
              THEN /\ sess' = [sess EXCEPT ![w] = upd.s]
                   /\ resp' = [resp EXCEPT ![w] = Response(500, "", upd.exc)]
                   /\ req' = [req EXCEPT ![w].pc = "done"]
              ELSE /\ sess' = [sess EXCEPT ![w] = new]
                   /\ req' = [req EXCEPT ![w].pc = "built"]
                   /\ UNCHANGED resp
    /\ UNCHANGED <<db, nops>>

\* Worker w calls db_session.commit(): the flush and the commit of its
\* transaction, or the rollback when the flush fails.
commit(w) ==
    /\ req[w].pc = "built"
    /\ LET created == ToCreate(before[w], req[w].arg.items)
           errs    == FlushErrors(sess[w], Ids(created))
                          \cup (IF KeysTaken(db, created) # {}
                                THEN {"IntegrityError"} ELSE {})
       IN  IF errs = {}
           THEN /\ db' = Flush(db, before[w], sess[w])
                /\ resp' = [resp EXCEPT
                               ![w] = Response(200,
                                               "Successfully finished bulk upserting session",
                                               "")]
           ELSE /\ db' = db
                /\ \E err \in errs : resp' = [resp EXCEPT ![w] = BulkCatch(err)]
    /\ sess' = [sess EXCEPT ![w] = db']
    /\ req' = [req EXCEPT ![w].pc = "done"]
    /\ nops' = nops + 1
    /\ UNCHANGED before

NextConcurrent == (\E w \in Workers : build(w)) \/ (\E w \in Workers : commit(w))

SpecConcurrent == InitConcurrent /\ [][NextConcurrent]_vars

----------------------------------------------------------------------------
(* What the last request was, for the properties below *)

IsBulk == req.op = "bulk_upsert_cve"

IsBatch == IsBulk /\ req.arg.isList

IsNotice == req.op = "create_notice"

IsDelete == req.op = "delete_cve"

\* The flush of the last request's commit() failed.
CommitFailed ==
    \/ resp.exc \in {"DataError", "IntegrityError"}
    \/ IsBulk /\ resp.message = "Failed bulk upserting session"
    \/ IsNotice /\ resp.message = "Notice already exists"
    \/ IsDelete /\ resp.message = "violates foreign key constraint"

\* No two rows of a table of URIs share a uri.
UniqueUris(table) ==
    \A i, j \in 1..Len(table) : table[i] = table[j] => i = j

\* The session never holds a CVE the store does not, nor the converse: the
\* bulk partition by the session is the partition by the store.
SessionSameCves == DOMAIN sess.cve = DOMAIN db.cve

----------------------------------------------------------------------------
(* C1 *)

\* C1: a bulk upsert whose commit hits a store violation (a type violation or
\* a duplicate key) leaves the store exactly as it was before the call: none
\* of the batch's creates and none of its updates is there.
C1_BulkUpsertAtomic ==
    (IsBatch /\ CommitFailed) => db = before

\* Three valid creates and a fourth payload the store rejects: a 400 and an
\* empty store.
C1_Witness ==
    /\ IsBatch /\ CommitFailed
    /\ Len(req.arg.items) = 4
    /\ \E i \in 1..4 : req.arg.items[i].sc = ScBad
    /\ resp.code = 400
    /\ DOMAIN db.cve = {}

----------------------------------------------------------------------------
(* C2 *)

\* C2: no store exception (IntegrityError, DataError) leaves bulk_upsert_cve,
\* create_notice or delete_cve: each is answered with a structured 400.
C2_NoStoreExceptionEscapes ==
    /\ resp.exc \notin {"DataError", "IntegrityError"}
    /\ CommitFailed => resp.code = 400

----------------------------------------------------------------------------
(* C3 *)

\* C3: no two Reference rows (those of notices and those of CVEs) share a uri
\* and no two Bug rows share a uri.
C3_NoDuplicateUri ==
    /\ UniqueUris(db.reference)
    /\ UniqueUris(db.cvereference)
    /\ UniqueUris(db.bug)

----------------------------------------------------------------------------
(* The payloads of the last batch *)

Items == req.arg.items

Range(seq) == {seq[i] : i \in 1..Len(seq)}

\* Items[i] is the last payload of the batch for its id.
IsLast(i) == \A j \in (i + 1)..Len(Items) : Items[j].id # Items[i].id

\* Items[i] is an update: its id was stored before the call.
IsUpdate(i) == Items[i].id \in DOMAIN before.cve

\* The URIs of the rows a set of row ids names.
UrisOf(table, rows) == {table[r] : r \in rows}

----------------------------------------------------------------------------
(* C4 *)

\* C4: after a bulk upsert that no store violation rolled back, for every
\* stored CVE the batch updates (one payload for its id): an association whose
\* key the payload carries, whatever the value, holds exactly the payload's
\* entries; an association whose key is absent is as it was.
C4_FullReplaceOnUpdate ==
    (IsBatch /\ ~CommitFailed) =>
        \A i \in 1..Len(Items) :
            (IsUpdate(i) /\ \A j \in 1..Len(Items) : Items[j].id = Items[i].id => j = i) =>
                LET data == Items[i]
                    old  == before.cve[data.id]
                    cve  == db.cve[data.id]
                IN  /\ IF data.references.present
                       THEN UrisOf(db.cvereference, cve.references)
                                = Range(data.references.val)
                       ELSE cve.references = old.references
                    /\ IF data.bugs.present
                       THEN UrisOf(db.bug, cve.bugs) = Range(data.bugs.val)
                       ELSE cve.bugs = old.bugs
                    /\ IF data.packages.present
                       THEN {db.package[r] : r \in cve.packages}
                                = Range(NewPackages(data.packages))
                       ELSE cve.packages = old.packages

----------------------------------------------------------------------------
(* C5 *)

\* Items[i] is the last payload for its id that carries reference URIs.
IsLastWithReferences(i) ==
    /\ TruthyList(Items[i].references)
    /\ \A j \in (i + 1)..Len(Items) :
          Items[j].id = Items[i].id => ~TruthyList(Items[j].references)

\* C5: a batch of updates only leaves the CVEReference table as it was; and
\* after a successful bulk upsert every updated CVE is linked to rows that
\* were stored before the call, one for each reference URI of its payload.
C5_ReferenceDedupOnUpdate ==
    IsBatch =>
        /\ (\A i \in 1..Len(Items) : IsUpdate(i)) =>
              db.cvereference = before.cvereference
        /\ resp.code = 200 =>
              \A i \in 1..Len(Items) :
                  (IsUpdate(i) /\ IsLastWithReferences(i)) =>
                      LET rows == db.cve[Items[i].id].references
                      IN  /\ rows \subseteq 1..Len(before.cvereference)
                          /\ \A r \in rows : db.cvereference[r] = before.cvereference[r]
                          /\ UrisOf(db.cvereference, rows) = Range(Items[i].references.val)

\* A CVE with no reference is updated with the URI of a row another CVE is
\* linked to, and is now linked to that row.
C5_Witness ==
    /\ IsBatch /\ resp.code = 200
    /\ \E i \in 1..Len(Items) :
          /\ IsUpdate(i)
          /\ Items[i].references = Key(<<"u1">>)
          /\ before.cve[Items[i].id].references = {}
          /\ \E other \in DOMAIN before.cve :
                /\ other # Items[i].id
                /\ db.cve[Items[i].id].references = before.cve[other].references
                /\ db.cve[Items[i].id].references # {}
    /\ Len(db.cvereference) = Len(before.cvereference)

----------------------------------------------------------------------------
(* C6 *)

\* C6: after a successful bulk upsert the stored ids are those stored before
\* and those of the batch, the number of CVE rows has grown by the number of
\* payloads whose id was not stored, and the row of every id of the batch
\* carries the scalar values of its (last) payload.
C6_BulkUpsertPartitions ==
    (IsBatch /\ resp.code = 200) =>
        /\ DOMAIN db.cve = DOMAIN before.cve \cup Range(Ids(Items))
        /\ Cardinality(DOMAIN db.cve) =
              Cardinality(DOMAIN before.cve)
                  + Cardinality({i \in 1..Len(Items) : ~IsUpdate(i)})
        /\ \A i \in 1..Len(Items) : \A k \in Fields \ (DateFields \cup {"crd"}) :
              (IsLast(i) /\ Items[i].sc[k] # ABSENT) =>
                  db.cve[Items[i].id].f[k] = Items[i].sc[k]
        /\ \A i \in 1..Len(Items) : \A k \in DateFields :
              (IsLast(i) /\ Items[i].sc[k] # ABSENT) =>
                  db.cve[Items[i].id].f[k] = parse(Items[i].sc[k])

\* A batch of one stored id and one new id: one update, one insert.
C6_Witness ==
    /\ IsBatch /\ resp.code = 200
    /\ Len(Items) = 2
    /\ IsUpdate(1) /\ ~IsUpdate(2)
    /\ Cardinality(DOMAIN db.cve) = Cardinality(DOMAIN before.cve) + 1

----------------------------------------------------------------------------
(* C7 *)

\* C7 as stated: after a successful bulk upsert every optional scalar field
\* absent from a CVE's (last) payload is null, created or updated.
C7_AbsentFieldsNull ==
    (IsBatch /\ resp.code = 200) =>
        \A i \in 1..Len(Items) : \A k \in Fields :
            (IsLast(i) /\ Items[i].sc[k] = ABSENT) =>
                db.cve[Items[i].id].f[k] = Null

\* C7 amended: as above, but a created CVE has the empty string for an absent
\* status and the empty list for absent notes.
C7_AbsentFieldsDefault ==
    (IsBatch /\ resp.code = 200) =>
        \A i \in 1..Len(Items) : \A k \in Fields :
            (IsLast(i) /\ Items[i].sc[k] = ABSENT) =>
                db.cve[Items[i].id].f[k] =
                    IF IsUpdate(i) THEN Null
                    ELSE IF k = "status" THEN ""
                    ELSE IF k = "notes" THEN "[]"
                    ELSE Null

\* A stored CVE with values in its columns is updated with a payload that
\* carries none of them, and a CVE is created from such a payload.
C7_Witness ==
    /\ IsBatch /\ resp.code = 200
    /\ \E i \in 1..Len(Items) :
          /\ IsUpdate(i) /\ IsLast(i)
          /\ Items[i].sc = ScNone
          /\ before.cve[Items[i].id].f["priority"] = "text"
          /\ db.cve[Items[i].id].f["priority"] = Null
    /\ \E i \in 1..Len(Items) :
          /\ ~IsUpdate(i)
          /\ Items[i].sc = ScNone
          /\ db.cve[Items[i].id].f["status"] = ""
          /\ db.cve[Items[i].id].f["cvss"] = Null

----------------------------------------------------------------------------
(* C8 *)

\* C8: a bulk upsert whose body is not a list is answered 400 with nothing
\* read or written: the store and the session are what they were.
C8_NonListRejected ==
    [][(req'.op = "bulk_upsert_cve" /\ ~req'.arg.isList /\ nops' # nops) =>
          /\ resp'.code = 400
          /\ resp'.message = "Please, submit a list (array) of CVEs"
          /\ db' = db
          /\ sess' = sess]_vars

\* A non-list body sent to a store that holds CVEs.
C8_Witness ==
    /\ IsBulk /\ ~req.arg.isList
    /\ resp.code = 400
    /\ DOMAIN before.cve # {}
    /\ db = before

----------------------------------------------------------------------------
(* C9 *)

\* The codename has a Release row.
Resolves(codename) == \E r \in Release : r.codename = codename

\* The payload passes the checks made before the release loop.
PassesValidation(json) ==
    /\ json.nonempty
    /\ json.title # ABSENT /\ json.summary # ABSENT /\ json.description # ABSENT
    /\ DOMAIN json.releases # {}

\* C9: create_notice with a valid payload naming a release codename that has
\* no Release row is answered 400 and the store is as before (no Notice, CVE
\* or Reference row written); and every stored Notice is linked to a stored
\* Release for each codename of its packages mapping, and to no other row.
C9_UnknownReleaseWritesNothing ==
    /\ (IsNotice /\ PassesValidation(req.arg)
          /\ \E c \in DOMAIN req.arg.releases : ~Resolves(c)) =>
              /\ resp.code = 400
              /\ db = before
              /\ req.arg.notice_id \notin DOMAIN db.notice
    /\ \A n \in DOMAIN db.notice :
          /\ db.notice[n].releases \subseteq {r.id : r \in Release}
          /\ \A c \in DOMAIN db.notice[n].packages :
                \E r \in Release : r.codename = c /\ r.id \in db.notice[n].releases

\* A notice naming the unknown codename "warty" beside a known one, with
\* references that would create a CVE and a Reference.
C9_Witness ==
    /\ IsNotice
    /\ "warty" \in DOMAIN req.arg.releases
    /\ "focal" \in DOMAIN req.arg.releases
    /\ req.arg.references # {}
    /\ resp.code = 400
    /\ DOMAIN db.notice # {}
    /\ db = before

----------------------------------------------------------------------------
(* C10 *)

\* C10: create_notice with the id of a stored Notice is answered 400 and the
\* store, the stored Notice with its links included, is as before; when the
\* payload is valid and its codenames resolve, the answer says the notice
\* already exists.
C10_DuplicateNoticeRejected ==
    (IsNotice /\ req.arg.nonempty /\ req.arg.notice_id \in DOMAIN before.notice) =>
        /\ resp.code = 400
        /\ db = before
        /\ db.notice[req.arg.notice_id] = before.notice[req.arg.notice_id]
        /\ (PassesValidation(req.arg) /\ \A c \in DOMAIN req.arg.releases : Resolves(c)) =>
              resp.message = "Notice already exists"

\* A second, different payload for a stored notice id.
C10_Witness ==
    /\ IsNotice
    /\ req.arg.notice_id \in DOMAIN before.notice
    /\ before.notice[req.arg.notice_id].title # req.arg.title
    /\ PassesValidation(req.arg)
    /\ resp.message = "Notice already exists"
    /\ db.notice[req.arg.notice_id].title = before.notice[req.arg.notice_id].title

----------------------------------------------------------------------------
(* C11 *)

\* The reference strings of the last create_notice payload shaped like CVE-xxxx.
CveRefs == {ref \in req.arg.references : StartsWithCVE(ref)}

\* C11: after a successful create_notice, for every payload reference shaped
\* like CVE-xxxx the notice is linked to the CVE whose id is that reference,
\* a stored CVE with that id being reused and no CVE row created for it; and
\* for every other reference the notice is linked to a Reference row with
\* that uri, the stored one when there was one.
C11_CveBackLinksById ==
    (IsNotice /\ resp.code = 201) =>
        LET linked == db.notice[req.arg.notice_id]
        IN  /\ \A ref \in CveRefs :
                  /\ ref \in linked.cves
                  /\ ref \in DOMAIN db.cve
            /\ (CveRefs \subseteq DOMAIN before.cve) =>
                  DOMAIN db.cve = DOMAIN before.cve
            /\ DOMAIN db.cve \ DOMAIN before.cve \subseteq CveRefs
            /\ \A ref \in req.arg.references \ CveRefs :
                  /\ \E r \in linked.references : db.reference[r] = ref
                  /\ \A r \in 1..Len(before.reference) :
                        before.reference[r] = ref => r \in linked.references

----------------------------------------------------------------------------
(* C12 *)

\* The store without the row of CVE cve_id.
WithoutCve(s, cve_id) ==
    [s EXCEPT !.cve = [i \in (DOMAIN s.cve) \ {cve_id} |-> s.cve[i]]]

----------------------------------------------------------------------------
(* C13 *)

IsNotices == req.op = "notices"

\* The page asked for, and the last page of the notices matching the filters
\* of the last request.
PageAsked == IF req.arg.page.present THEN req.arg.page.val ELSE 1

Matching ==
    {n \in DOMAIN db.notice :
        /\ req.arg.release # Null =>
              \E r \in Release : /\ r.codename = req.arg.release
                                 /\ r.codename \in DOMAIN db.notice[n].packages
        /\ req.arg.details = "KERNEL" => db.notice[n].details = "Linux kernel update"
        /\ req.arg.details = "nothing" => FALSE}

LastPage ==
    CHOOSE p \in 0..Cardinality(Matching) :
        /\ p * 10 >= Cardinality(Matching)
        /\ (p - 1) * 10 < Cardinality(Matching)

\* C13 as stated: a request for a page below 1 or beyond the last page,
\* the last page being 0 when nothing matches, is answered 404, and every
\* request that is not returns a page that is not empty.
C13_OutOfRangePageIs404 ==
    IsNotices =>
        /\ (PageAsked < 1 \/ PageAsked > LastPage) => resp.code = 404
        /\ resp.code # 404 => Len(resp.body.notices) > 0

\* C13 amended: page 1 is always served, empty when nothing matches; every
\* other page below 1 or beyond the last is answered 404; a page that is
\* served is empty only when it is page 1 and nothing matches.
C13_OutOfRangePageButFirstIs404 ==
    IsNotices =>
        /\ resp.code = 404 <=> (PageAsked < 1 \/ (PageAsked > 1 /\ PageAsked > LastPage))
        /\ resp.code # 404 =>
              /\ resp.code = 200
              /\ Len(resp.body.notices) = 0 <=> (PageAsked = 1 /\ Matching = {})
              /\ Len(resp.body.notices) <= 10
              /\ \A i \in 1..Len(resp.body.notices) : resp.body.notices[i] \in Matching

\* Page 1 of a search nothing matches in a store of notices is served, and
\* empty.
C13_Witness ==
    /\ IsNotices
    /\ PageAsked = 1
    /\ DOMAIN db.notice # {}
    /\ Matching = {}
    /\ resp.code = 200
    /\ Len(resp.body.notices) = 0

----------------------------------------------------------------------------
(* C14 *)

IsCveIndex == req.op = "cve_index"

\* The search text of the last CVE index request names a stored CVE: the
\* index redirects to it.
NamesStoredCve ==
    req.arg.q = "cve-2020-10535" /\ "CVE-2020-10535" \in DOMAIN db.cve

\* The stored CVEs that match every filter of the last CVE index request.
MatchingCves ==
    {id \in DOMAIN db.cve :
        /\ req.arg.package = "git" =>
              \E p \in db.cve[id].packages : db.package[p].name \in {"gitlab", "gitlab-ce"}
        /\ req.arg.priority = "low" => db.cve[id].f["priority"] = "low"
        /\ req.arg.q \in {"gitlab", " gitlab "} =>
              db.cve[id].f["description"] = "GitLab 12.8.x before 12.8.6"
        /\ req.arg.q = "cve-2020-10535" => FALSE}

LimitAsked == IF req.arg.limit.present THEN req.arg.limit.val ELSE 20

\* C14: every CVE index request that is not a redirect is rendered with
\* total_results the number of CVEs matching all its filters, total_pages the
\* least number of pages of `limit` entries that hold them, and at most
\* `limit` CVEs; every notice index page rendered likewise, with 10 for limit.
C14_PaginationMath ==
    /\ (IsCveIndex /\ ~NamesStoredCve) =>
          /\ resp.code = 200
          /\ resp.body.total_results = Cardinality(MatchingCves)
          /\ resp.body.total_pages * LimitAsked >= resp.body.total_results
          /\ (resp.body.total_pages - 1) * LimitAsked < resp.body.total_results
          /\ Len(resp.body.cves) <= LimitAsked
    /\ (IsNotices /\ resp.code = 200) =>
          /\ resp.body.pagination.total_results = Cardinality(Matching)
          /\ resp.body.pagination.total_pages = LastPage
          /\ Len(resp.body.notices) <= 10

----------------------------------------------------------------------------
(* C15 *)

IsNoticeView == req.op = "notice"

\* The number a version string denotes.
VersionNumber(v) ==
    CASE v = "20.04" -> 2004
      [] v = "16.04" -> 1604
      [] v = "8.04"  -> 804
      [] OTHER       -> 0

\* C15: the page of a stored notice whose codenames all have a Release has
\* one key of releases_packages for each codename, the version of its
\* Release, the keys in descending order of the versions as numbers; and its
\* packages set holds the "name - description" or bare name of every source
\* package of the mapping.
C15_NoticeViewAssembly ==
    (IsNoticeView /\ req.arg \in DOMAIN db.notice) =>
        LET packages == db.notice[req.arg].packages
            rp       == resp.body.releases_packages
        IN  /\ resp.code = 200
            /\ Len(rp) = Cardinality(DOMAIN packages)
            /\ {rp[i].version : i \in 1..Len(rp)}
                   = {r.version : r \in {x \in Release : x.codename \in DOMAIN packages}}
            /\ \A i, j \in 1..Len(rp) :
                  i < j => VersionNumber(rp[i].version) > VersionNumber(rp[j].version)
            /\ \A c \in DOMAIN packages :
                  "sources" \in DOMAIN packages[c] =>
                      \A name \in DOMAIN packages[c].sources :
                          PackageName(name, packages[c].sources[name].description)
                              \in resp.body.packages

----------------------------------------------------------------------------
(* C16 *)

\* Every outcome of request r served with store d and session s.
Outcomes(d, s, r) ==
    CASE r.op = "bulk_upsert_cve" -> BulkUpsert(d, s, r.arg)
      [] r.op = "create_notice"   -> CreateNotice(d, s, r.arg)
      [] r.op = "delete_cve"      -> DeleteCve(d, s, r.arg)

\* C16: no request makes visible in the store a change an earlier, failed
\* request has left in the shared session: the store after each request is a
\* store the request makes of the store before it on a session that holds
\* nothing else.
C16_FailedWriteLeavesNothing ==
    [][nops' # nops => db' \in {o.db : o \in Outcomes(db, db, req')}]_vars

----------------------------------------------------------------------------
(* C17 *)

\* Worker w commits in this step.
Commits(w) == req[w].pc = "built" /\ req'[w].pc = "done"

\* The store holds every record of worker w's batch with the values of its
\* payload.
HoldsBatch(d, w) ==
    \A i \in 1..Len(req[w].arg.items) :
        LET data == req[w].arg.items[i]
        IN  /\ data.id \in DOMAIN d.cve
            /\ \A k \in Fields \ (DateFields \cup {"crd"}) :
                  data.sc[k] # ABSENT => d.cve[data.id].f[k] = data.sc[k]

\* C17: in every interleaving of two bulk upserts, the store changes only in
\* the one commit of a batch and then holds all of that batch, so that a
\* reader sees all of a batch or none of it; and of two batches with the same
\* CVE id, one the store did not hold when the first of them was partitioned,
\* at most one is committed.
C17_ConcurrentBatchesAtomic ==
    [][/\ db' # db =>
              \E w \in Workers : /\ Commits(w)
                                 /\ resp'[w].code = 200
                                 /\ HoldsBatch(db', w)
       /\ \A w \in Workers : (Commits(w) /\ resp'[w].code # 200) => db' = db
       /\ (\A w \in Workers : req'[w].pc = "done") =>
              \A i \in 1..Len(req["a"].arg.items), j \in 1..Len(req["b"].arg.items) :
                  (/\ req["a"].arg.items[i].id = req["b"].arg.items[j].id
                   /\ \E w \in Workers :
                         req["a"].arg.items[i].id \notin DOMAIN before'[w].cve) =>
                      ~(resp'["a"].code = 200 /\ resp'["b"].code = 200)]_vars

----------------------------------------------------------------------------
(* C18 *)

\* C18: a bulk upsert that updates a stored CVE with a payload whose bugs
\* list is not empty, with a references key or without, is answered 200, and
\* afterwards the CVE is linked to one Bug row for each bug URI of the
\* payload, the row having that URI and being the stored row when a Bug with
\* that URI was stored.
C18_BugLookupByOwnUri ==
    IsBatch =>
        \A i \in 1..Len(Items) :
            (IsUpdate(i) /\ IsLast(i) /\ TruthyList(Items[i].bugs)) =>
                /\ resp.code = 200
                /\ LET rows == db.cve[Items[i].id].bugs
                   IN  /\ UrisOf(db.bug, rows) = Range(Items[i].bugs.val)
                       /\ Cardinality(rows) = Cardinality(Range(Items[i].bugs.val))
                       /\ \A r \in rows :
                             (\E o \in 1..Len(before.bug) : before.bug[o] = db.bug[r]) =>
                                 r <= Len(before.bug)

====
